---- MODULE Spec2Model ----
(***************************************************************************)
(* The chat widget of ChatBot-n8n: the Chat component (message log,        *)
(* session identifier, localStorage persistence, the asynchronous          *)
(* sendMessage round trip), the ChatInput / ChatMessage components that    *)
(* gate and render it, and the TypingAnimation reveal engine.              *)
(*                                                                         *)
(* Strings are sequences of one-character strings, so that trim, slice     *)
(* and the link regular expression are computed character by character.   *)
(* Indices handed around (startIndex, displayIndex, ...) are 0-based as   *)
(* in the source; Slice converts to the 1-based sequences of TLA+.         *)
(***************************************************************************)
EXTENDS Integers, Sequences, FiniteSets, TLC

\* Number of accepted submits explored in one run (caps the log and the clock).
MaxSubmits == 2

\* Number of page reloads explored in one run.
MaxReloads == 1

\* Number of pieces (characters, brackets, links) a reply text is built from.
MaxTokens == 3

(***************************************************************************)
(* String helpers (String.prototype.slice / trim)                          *)
(***************************************************************************)
Min(a, b) == IF a < b THEN a ELSE b

\* text.slice(a, b) for 0 <= a, with b clamped to the length.
Slice(s, a, b) == SubSeq(s, a + 1, Min(b, Len(s)))

IsWhitespace(ch) == ch = " "

RECURSIVE TrimStart(_)
TrimStart(s) ==
    IF s # << >> /\ IsWhitespace(Head(s)) THEN TrimStart(Tail(s)) ELSE s

RECURSIVE TrimEnd(_)
TrimEnd(s) ==
    IF s # << >> /\ IsWhitespace(s[Len(s)])
    THEN TrimEnd(SubSeq(s, 1, Len(s) - 1))
    ELSE s

\* inputValue.trim()
Trim(s) == TrimEnd(TrimStart(s))

(***************************************************************************)
(* TypingAnimation.tsx: parseTextElements                                  *)
(***************************************************************************)
\* Smallest 0-based index >= from at which ch occurs in s, or -1.
IndexOfFrom(s, ch, from) ==
    LET hits == { i \in from .. (Len(s) - 1) : s[i + 1] = ch }
    IN  IF hits = {} THEN -1
        ELSE CHOOSE i \in hits : \A j \in hits : i <= j

\* The match of /\[([^\]]+)\]\(([^)]+)\)/ anchored at 0-based position i, as
\* [index, end, linkText, linkUrl], or index = -1 when it does not match there.
\* [^\]]+ is greedy and must be followed by "]", so the label runs exactly to
\* the first "]" after the "["; likewise the url runs to the first ")".
NoMatch == [index |-> -1, end |-> -1, linkText |-> << >>, linkUrl |-> << >>]

\* Mutant: the label may be empty ([^\]]* in place of [^\]]+).
MatchWith_EmptyLabel(text, i, j, k) ==
    IF \/ i >= Len(text)
       \/ text[i + 1] # "["
       \/ j = -1
       \/ j + 1 >= Len(text)
       \/ text[j + 2] # "("
       \/ k = -1
       \/ k = j + 2
    THEN NoMatch
    ELSE [index    |-> i,
          end      |-> k + 1,
          linkText |-> Slice(text, i + 1, j),
          linkUrl  |-> Slice(text, j + 2, k)]

MatchWith(text, i, j, k) ==
    IF \/ i >= Len(text)
       \/ text[i + 1] # "["
       \/ j = -1
       \/ j = i + 1                      \* empty label: + needs one char
       \/ j + 1 >= Len(text)
       \/ text[j + 2] # "("
       \/ k = -1
       \/ k = j + 2                      \* empty url
    THEN NoMatch
    ELSE [index    |-> i,
          end      |-> k + 1,
          linkText |-> Slice(text, i + 1, j),
          linkUrl  |-> Slice(text, j + 2, k)]

MatchLabel(text, i, j) == MatchWith(text, i, j, IndexOfFrom(text, ")", j + 2))

MatchAt(text, i) == MatchLabel(text, i, IndexOfFrom(text, "]", i + 1))

\* markdownLinkRegex.exec(text) with the g flag and the given lastIndex:
\* the leftmost match starting at or after lastIndex.
RegexExec(text, lastIndex) ==
    LET starts == { i \in lastIndex .. (Len(text) - 1) : MatchAt(text, i).index # -1 }
    IN  IF starts = {} THEN NoMatch
        ELSE MatchAt(text, CHOOSE i \in starts : \A j \in starts : i <= j)

TextElement(text, from, to, displayIndex) ==
    [type              |-> "text",
     content           |-> Slice(text, from, to),
     linkText          |-> << >>,
     linkUrl           |-> << >>,
     startIndex        |-> from,
     endIndex          |-> to,
     displayStartIndex |-> displayIndex,
     displayLength     |-> to - from]

\* Mutant: a link counts with the length of its whole markup.
LinkElement_MarkupLength(text, m, displayIndex) ==
    [type              |-> "link",
     content           |-> Slice(text, m.index, m.end),
     linkText          |-> m.linkText,
     linkUrl           |-> m.linkUrl,
     startIndex        |-> m.index,
     endIndex          |-> m.end,
     displayStartIndex |-> displayIndex,
     displayLength     |-> m.end - m.index]

LinkElement(text, m, displayIndex) ==
    [type              |-> "link",
     content           |-> Slice(text, m.index, m.end),
     linkText          |-> m.linkText,
     linkUrl           |-> m.linkUrl,
     startIndex        |-> m.index,
     endIndex          |-> m.end,
     displayStartIndex |-> displayIndex,
     displayLength     |-> Len(m.linkText)]

\* The while loop and the trailing remainder of parseTextElements; m is the
\* result of markdownLinkRegex.exec at this iteration.
RECURSIVE ParseLoop(_, _, _, _)
ParseStep(text, lastIndex, displayIndex, elements, m) ==
    IF m.index = -1
    THEN IF lastIndex < Len(text)
         THEN Append(elements, TextElement(text, lastIndex, Len(text), displayIndex))
         ELSE elements
    ELSE IF m.index > lastIndex
    THEN ParseLoop(text, m.end,
                   displayIndex + (m.index - lastIndex) + Len(m.linkText),
                   elements \o << TextElement(text, lastIndex, m.index, displayIndex),
                                  LinkElement(text, m, displayIndex + (m.index - lastIndex)) >>)
    ELSE ParseLoop(text, m.end, displayIndex + Len(m.linkText),
                   Append(elements, LinkElement(text, m, displayIndex)))

ParseLoop(text, lastIndex, displayIndex, elements) ==
    ParseStep(text, lastIndex, displayIndex, elements, RegexExec(text, lastIndex))

parseTextElements(text) == ParseLoop(text, 0, 0, << >>)

RECURSIVE SumDisplayLength(_)
SumDisplayLength(elements) ==
    IF elements = << >> THEN 0
    ELSE Head(elements).displayLength + SumDisplayLength(Tail(elements))

\* parsedElements.reduce((sum, el) => sum + el.displayLength, 0)
totalDisplayLength(parsedElements) == SumDisplayLength(parsedElements)

\* Math.min(displayIndex - element.displayStartIndex, element.displayLength)
VisibleLength(element, displayIndex) ==
    Min(displayIndex - element.displayStartIndex, element.displayLength)

\* A rendered node: a <span> of plain text or an <a> chip with its label.
Rendered(tag, element, visible) ==
    [tag  |-> tag,
     key  |-> element.startIndex,
     text |-> visible,
     href |-> element.linkUrl]

\* Mutant: an element is rendered only until the cursor has passed it.
RenderedElement_Current(element, displayIndex) ==
    IF displayIndex > element.displayStartIndex + element.displayLength
    THEN << >>
    ELSE IF element.type = "text"
    THEN IF VisibleLength(element, displayIndex) > 0
         THEN << Rendered("span", element,
                          Slice(element.content, 0, VisibleLength(element, displayIndex))) >>
         ELSE << >>
    ELSE << Rendered("a", element,
                     Slice(element.linkText, 0, VisibleLength(element, displayIndex))) >>

\* Mutant: a link is pushed, like a text element, only once one character of
\* its label is visible.
RenderedElement_LinkWhenVisible(element, displayIndex) ==
    IF VisibleLength(element, displayIndex) > 0
    THEN << Rendered(IF element.type = "text" THEN "span" ELSE "a", element,
                     Slice(IF element.type = "text" THEN element.content
                                                    ELSE element.linkText,
                           0, VisibleLength(element, displayIndex))) >>
    ELSE << >>

\* The body of renderElements' loop for an element the cursor has reached: a
\* text element gives a <span> once one character is visible, a link its chip
\* at once, with the visible part of the label.
RenderedElement(element, displayIndex) ==
    IF element.type = "text"
    THEN IF VisibleLength(element, displayIndex) > 0
         THEN << Rendered("span", element,
                          Slice(element.content, 0, VisibleLength(element, displayIndex))) >>
         ELSE << >>
    ELSE << Rendered("a", element,
                     Slice(element.linkText, 0, VisibleLength(element, displayIndex))) >>

\* Mutant: the loop has no test of displayStartIndex and visits every element.
RECURSIVE RenderLoop_NoBreak(_, _)
RenderLoop_NoBreak(elements, displayIndex) ==
    IF elements = << >>
    THEN << >>
    ELSE RenderedElement(Head(elements), displayIndex)
            \o RenderLoop_NoBreak(Tail(elements), displayIndex)

\* for (const element of parsedElements), left by break at the first element
\* the cursor has not reached.
RECURSIVE RenderLoop(_, _)
RenderLoop(elements, displayIndex) ==
    IF elements = << >> \/ displayIndex < Head(elements).displayStartIndex
    THEN << >>
    ELSE RenderedElement(Head(elements), displayIndex)
            \o RenderLoop(Tail(elements), displayIndex)

renderElements(parsedElements, displayIndex) == RenderLoop(parsedElements, displayIndex)

(***************************************************************************)
(* Data model: Message (ChatMessage.tsx), the responder's answer, the      *)
(* localStorage entries                                                    *)
(***************************************************************************)
\* typingMessageId = null; message ids are positive.
NULL == 0

\* The fixed texts of the source, each represented by a one-character
\* stand-in; like the originals none of them contains link syntax.
GREETING_TEXT == << "G" >>
FALLBACK_TEXT == << "F" >>
APOLOGY_TEXT  == << "E" >>

\* isTyping is optional in Message: "undefined" when the field is not set.
Message(id, text, isUser, timestamp, isTyping) ==
    [id |-> id, text |-> text, isUser |-> isUser,
     timestamp |-> timestamp, isTyping |-> isTyping]

\* A field of the response payload: undefined, or a string.
Absent  == [present |-> FALSE, val |-> << >>]
Str(v)  == [present |-> TRUE, val |-> v]

JsonNull      == [kind |-> "null", str |-> << >>, response |-> Absent,
                  message |-> Absent, output |-> Absent, text |-> Absent]
JsonString(s) == [kind |-> "string", str |-> s, response |-> Absent,
                  message |-> Absent, output |-> Absent, text |-> Absent]
JsonObject(r, m, o, t) ==
    [kind |-> "object", str |-> << >>, response |-> r,
     message |-> m, output |-> o, text |-> t]

\* JavaScript truthiness of a payload field: undefined and "" are falsy.
Truthy(f) == f.present /\ f.val # << >>

\* Reading data.response on null throws a TypeError.
ExtractionThrows(data) == data.kind = "null"

\* data.response || data.message || data.output || data.text ||
\*   (typeof data === 'string' ? data : FALLBACK)
botResponseText(data) ==
    IF Truthy(data.response) THEN data.response.val
    ELSE IF Truthy(data.message) THEN data.message.val
    ELSE IF Truthy(data.output) THEN data.output.val
    ELSE IF Truthy(data.text) THEN data.text.val
    ELSE IF data.kind = "string" THEN data.str
    ELSE FALLBACK_TEXT

\* The input strings a user types: empty, blank, and text with leading space.
InputValues == { << >>, << " " >>, << " ", "h" >> }

\* The bodies the responder sends: null, a bare string (possibly empty), an
\* object whose response is empty and whose message holds a link.
Payloads ==
    { JsonNull,
      JsonString(<< "a" >>),
      JsonString(<< >>),
      JsonObject(Str(<< >>), Str(<< "[", "b", "]", "(", "u", ")" >>), Absent, Absent) }

\* Date.prototype.toISOString and new Date(isoString): a Date holds whole
\* milliseconds and the ISO string carries them all.
ToISOString(t) == [iso |-> t]
NewDate(iso)   == iso.iso

\* Mutant: the typing flag is never written.
JsonMessage_NoFlag(m) ==
    [m EXCEPT !.timestamp = ToISOString(@), !.isTyping = "absent"]

\* JSON.stringify of a message: the Date becomes its ISO string, an undefined
\* isTyping is left out.
JsonMessage(m) ==
    [m EXCEPT !.timestamp = ToISOString(@),
              !.isTyping = IF @ = "undefined" THEN "absent" ELSE @]

JSONstringify(msgs) == [i \in 1 .. Len(msgs) |-> JsonMessage(msgs[i])]

\* { ...msg, timestamp: new Date(msg.timestamp) } of a parsed message: a
\* property that is not there reads as undefined.
ParsedMessage(j) ==
    [j EXCEPT !.timestamp = NewDate(@),
              !.isTyping = IF @ = "absent" THEN "undefined" ELSE @]

StoredAbsent    == [kind |-> "absent", value |-> << >>]
StoredMalformed == [kind |-> "malformed", value |-> << >>]
StoredJson(v)   == [kind |-> "json", value |-> v]

\* The seeded greeting of loadMessages, created at time t.
Greeting(t) == Message(1, GREETING_TEXT, FALSE, t, "undefined")

\* Mutant: no greeting is seeded when nothing usable is stored.
loadMessages_NoFallback(stored, t) ==
    IF stored.kind = "json"
    THEN [i \in 1 .. Len(stored.value) |-> ParsedMessage(stored.value[i])]
    ELSE << >>

\* loadMessages: the parsed log with timestamps rebuilt, or the greeting when
\* nothing is stored, the read throws or JSON.parse throws.
loadMessages(stored, t) ==
    IF stored.kind = "json"
    THEN [i \in 1 .. Len(stored.value) |-> ParsedMessage(stored.value[i])]
    ELSE << Greeting(t) >>

\* getOrCreateSessionId: the stored identifier, or a fresh ulid that is stored.
NoSession  == "null"
OldSession == "01OLD"
NewSession == "01NEW"
\* Mutant: a fresh identifier on every load.
getOrCreateSessionId_Always(storedId) == NewSession

getOrCreateSessionId(storedId) == IF storedId = NoSession THEN NewSession ELSE storedId

\* What localStorage holds when the widget is constructed.
InitialLogs ==
    { StoredAbsent,
      StoredJson(JSONstringify(<< Greeting(1) >>)) }

(***************************************************************************)
(* State of the Chat component (second implementation, ChatHeader.tsx      *)
(* 452-625), of localStorage, of the pending sendMessage calls and of the  *)
(* mounted TypingAnimation                                                 *)
(***************************************************************************)
\* The first implementation in the same file (122-438) has the same state and
\* the same handlers, with ChatInput and ChatMessage inlined.
VARIABLES
    sessionId,          \* useState(getOrCreateSessionId)
    messages,           \* useState(loadMessages)
    inputValue,         \* useState('')
    isOpen,             \* useState(false)
    isLoading,          \* useState(false)
    typingMessageId,    \* useState(null)
    storedSessionId,    \* localStorage['chat_session_id']
    storedMessages,     \* localStorage['chat_messages']
    persisted,          \* the log handed to the last setItem that succeeded
    calls,              \* sendMessage invocations suspended at an await
    requests,           \* the request bodies handed to fetch, in order
    anim,               \* the mounted TypingAnimation, if any
    clock,              \* source of ulid() and new Date(): strictly increasing
    writeFailed,        \* some localStorage.setItem of the log has thrown
    responses,          \* the bodies response.json() has resolved with, in order
    onCompleteCalls,    \* the message ids onComplete has been invoked for, in order
    orphanTimers,       \* timeouts still scheduled whose TypingAnimation is unmounted
    lastCursor,         \* the displayIndex last rendered for the message under
                        \* reveal, kept while its TypingAnimation is unmounted
                        \* (writeFailed to lastCursor: since the page was loaded)
    reloads,            \* how many times the page has been reloaded
    lastOp              \* the last event and how it ended

vars == << sessionId, messages, inputValue, isOpen, isLoading, typingMessageId,
           storedSessionId, storedMessages, persisted, calls, requests, anim, clock,
           writeFailed, responses, onCompleteCalls, orphanTimers, lastCursor,
           reloads, lastOp >>

\* timer counts the timeouts of this TypingAnimation that are scheduled and
\* have neither fired nor been cleared; rendered is what its last render
\* returned.
NoAnim == [mounted |-> FALSE, msgId |-> NULL, text |-> << >>, parsedElements |-> << >>,
           displayIndex |-> 0, isComplete |-> FALSE, timer |-> 0, rendered |-> << >>]

\* A TypingAnimation right after its first render: useState(0), useState(false),
\* useState(() => parseTextElements(text)); no effect has run yet.
\* The reset effect (setDisplayIndex(0), setIsComplete(false) on [text]) changes
\* nothing at mount.
MountTypingAnimation(m) ==
    [mounted |-> TRUE, msgId |-> m.id, text |-> m.text,
     parsedElements |-> parseTextElements(m.text),
     displayIndex |-> 0, isComplete |-> FALSE, timer |-> 0, rendered |-> << >>]

\* Mutant: every assistant message with isTyping set is animated.
TypingTargets_AnyTyping(msgs, tmid, open) ==
    { i \in 1 .. Len(msgs) : open /\ ~msgs[i].isUser /\ msgs[i].isTyping = "true" }

\* ChatMessage: the messages rendered as <TypingAnimation>. ChatMessages is
\* rendered only while the window is open.
TypingTargets(msgs, tmid, open) ==
    { i \in 1 .. Len(msgs) :
        /\ open
        /\ ~msgs[i].isUser
        /\ msgs[i].isTyping = "true"
        /\ tmid = msgs[i].id }

\* Mutant: the completion marks every message as typed.
handleTypingComplete_All(msgs, id) ==
    [i \in 1 .. Len(msgs) |-> [msgs[i] EXCEPT !.isTyping = "false"]]

\* handleTypingComplete's functional update of the log.
handleTypingComplete(msgs, id) ==
    [i \in 1 .. Len(msgs) |->
        IF msgs[i].id = id THEN [msgs[i] EXCEPT !.isTyping = "false"] ELSE msgs[i]]

\* A render of Chat followed by the effects of TypingAnimation. The animation
\* keyed by the same message id keeps its state; any other is unmounted (its
\* effect cleanup clears the timeout) and a new one is mounted. The tick effect
\* then either schedules a timeout or, at the end of the text, sets isComplete
\* and calls onComplete, i.e. handleTypingComplete, whose state updates unmount
\* the animation.
\* fired lists the message ids onComplete was invoked for by these effects.
\* orphans counts the timeouts these effects leave scheduled for a
\* TypingAnimation they unmount.
State(msgs, tmid, a) ==
    [messages |-> msgs, typingMessageId |-> tmid, anim |-> a, fired |-> << >>,
     orphans |-> 0]

Orphaned(st, n) == [st EXCEPT !.orphans = @ + n]

\* Mutant: the tick effect returns no cleanup.
Cleanup_Missing(b) == b

\* The cleanup the tick effect returned when it scheduled a timeout:
\* clearTimeout(timeout). It runs before the effect runs again and at unmount;
\* clearing a timeout that has fired does nothing.
Cleanup(b) == [b EXCEPT !.timer = IF @ > 0 THEN @ - 1 ELSE 0]

\* Mutant: at the end of the text onComplete is invoked, but neither is
\* isComplete set nor does the callback reach the Chat state.
TickEffect_Refire(msgs, tmid, b, total) ==
    IF b.displayIndex < total
    THEN State(msgs, tmid, [b EXCEPT !.timer = @ + 1])
    ELSE [State(msgs, tmid, b) EXCEPT !.fired = << b.msgId >>]

\* The tick effect of the mounted animation b, whose text has total
\* characters, run after the cleanup of its previous run.
TickEffect(msgs, tmid, b, total) ==
    IF b.displayIndex < total
    THEN State(msgs, tmid, [b EXCEPT !.timer = @ + 1])
    ELSE IF b.displayIndex = total /\ ~b.isComplete
    THEN [State(handleTypingComplete(msgs, b.msgId), NULL, NoAnim)
            EXCEPT !.fired = << b.msgId >>, !.orphans = Cleanup(b).timer]
    ELSE State(msgs, tmid, b)

\* return <>{renderElements()}</>
Paint(b) == [b EXCEPT !.rendered = renderElements(b.parsedElements, b.displayIndex)]

Effects(msgs, tmid, b) ==
    TickEffect(msgs, tmid, Paint(b), totalDisplayLength(b.parsedElements))

\* Mutant: no reset effect.
ResetEffect_Missing(a, m) == [a EXCEPT !.text = m.text]

\* The mounted animation a rendered again for the message m: when the text
\* prop has changed, the reset effect sets displayIndex to 0 and isComplete
\* to false. parsedElements is state initialised at mount and has no setter.
ResetEffect(a, m) ==
    IF a.text # m.text
    THEN [a EXCEPT !.text = m.text, !.displayIndex = 0, !.isComplete = FALSE]
    ELSE a

\* The tick effect runs again (after its cleanup) in the render that the
\* reset effect's state updates cause.
Reconcile(msgs, tmid, a, m) ==
    IF a.mounted /\ a.msgId = m.id
    THEN Effects(msgs, tmid, Cleanup(ResetEffect(a, m)))
    ELSE Orphaned(Effects(msgs, tmid, MountTypingAnimation(m)), Cleanup(a).timer)

CommitTargets(msgs, tmid, a, tgt) ==
    IF tgt = {}
    THEN Orphaned(State(msgs, tmid, NoAnim), Cleanup(a).timer)
    ELSE Reconcile(msgs, tmid, a, msgs[CHOOSE i \in tgt : \A j \in tgt : i <= j])

Commit(msgs, tmid, open, a) ==
    CommitTargets(msgs, tmid, a, TypingTargets(msgs, tmid, open))

NoCursor == [msgId |-> NULL, displayIndex |-> 0]

\* The cursor on screen after the commit c: that of the mounted animation;
\* with none mounted, the previous one as long as its message is still the
\* one named by typingMessageId.
CursorAfter(c, prev) ==
    IF c.anim.mounted
    THEN [msgId |-> c.anim.msgId, displayIndex |-> c.anim.displayIndex]
    ELSE IF c.typingMessageId # NULL /\ c.typingMessageId = prev.msgId
    THEN prev
    ELSE NoCursor

RenderTo(c) ==
    /\ messages' = c.messages
    /\ typingMessageId' = c.typingMessageId
    /\ anim' = c.anim
    /\ onCompleteCalls' = onCompleteCalls \o c.fired
    /\ orphanTimers' = orphanTimers + c.orphans
    /\ lastCursor' = CursorAfter(c, lastCursor)

Render(msgs, tmid, open, a) ==
    \E c \in { Commit(msgs, tmid, open, a) } : RenderTo(c)

\* saveMessages: setItem of the serialized log; a throw is caught and logged.
saveMessages(newMessages, ok) ==
    /\ storedMessages' = IF ok THEN StoredJson(JSONstringify(newMessages)) ELSE storedMessages
    /\ persisted' = IF ok THEN newMessages ELSE persisted
    /\ writeFailed' = (writeFailed \/ ~ok)

Init ==
    /\ storedSessionId \in { getOrCreateSessionId(s) : s \in { NoSession, OldSession } }
    /\ sessionId = storedSessionId
    /\ storedMessages \in InitialLogs
    /\ persisted = (IF storedMessages = StoredAbsent THEN << >> ELSE << Greeting(1) >>)
    /\ messages = loadMessages(storedMessages, 1)
    /\ inputValue = << >>
    /\ isOpen = FALSE
    /\ isLoading = FALSE
    /\ typingMessageId = NULL
    /\ calls = {}
    /\ requests = << >>
    /\ anim = NoAnim
    /\ clock = 2
    /\ writeFailed = FALSE
    /\ responses = << >>
    /\ onCompleteCalls = << >>
    /\ orphanTimers = 0
    /\ lastCursor = NoCursor
    /\ reloads = 0
    /\ lastOp = "init"

(***************************************************************************)
(* ChatInput: the disabled attributes                                      *)
(***************************************************************************)
\* Mutant: the input stays enabled while a request is pending.
InputDisabled_Never == FALSE

\* <input disabled={loading}>
InputDisabled == isLoading

\* <button disabled={!value.trim() || loading}>
SendDisabled == Trim(inputValue) = << >> \/ isLoading

(***************************************************************************)
(* Chat: event handlers                                                    *)
(***************************************************************************)
\* The Chat component is rendered: its construction has not thrown.
Mounted == lastOp \notin { "boot", "initReadThrew", "initWriteThrew" }

\* setIsOpen(true) of the launcher button
OpenChat ==
    /\ Mounted
    /\ ~isOpen
    /\ isOpen' = TRUE
    /\ Render(messages, typingMessageId, TRUE, anim)
    /\ lastOp' = "open"
    /\ UNCHANGED << reloads, sessionId, inputValue, isLoading, storedSessionId, storedMessages, persisted,
                    calls, requests, clock, writeFailed, responses >>

\* onClose of ChatHeader: setIsOpen(false)
CloseChat ==
    /\ isOpen
    /\ isOpen' = FALSE
    /\ Render(messages, typingMessageId, FALSE, anim)
    /\ lastOp' = "close"
    /\ UNCHANGED << reloads, sessionId, inputValue, isLoading, storedSessionId, storedMessages, persisted,
                    calls, requests, clock, writeFailed, responses >>

\* onChange of the input: setInputValue(e.target.value). A disabled input
\* takes no input.
ChangeInput(v) ==
    /\ isOpen
    /\ ~InputDisabled
    /\ v # inputValue
    /\ inputValue' = v
    /\ Render(messages, typingMessageId, isOpen, anim)
    /\ lastOp' = "change"
    /\ UNCHANGED << reloads, sessionId, isOpen, isLoading, storedSessionId, storedMessages, persisted,
                    calls, requests, clock, writeFailed, responses >>

\* Mutant: the emptiness test forgets to trim.
IsBlank_NoTrim(input) == input = << >>

\* !inputValue.trim(), the early return of sendMessage
IsBlank(input) == Trim(input) = << >>

\* Mutant: the request carries the trimmed input.
RequestBody_Trimmed(input, sid) ==
    [chatInput |-> Trim(input), sessionId |-> sid, action |-> "sendMessage"]

\* JSON body of the POST: { chatInput: inputValue, sessionId, action: 'sendMessage' }
RequestBody(input, sid) ==
    [chatInput |-> input, sessionId |-> sid, action |-> "sendMessage"]

\* sendMessage up to its first await. A blank input returns at once; otherwise
\* the user message is appended and saved, the input cleared, isLoading set
\* and fetch called with the request body.
sendMessage ==
    IF IsBlank(inputValue)
    THEN /\ lastOp' = "blank"
         /\ UNCHANGED << reloads, sessionId, messages, inputValue, isOpen, isLoading,
                         typingMessageId, storedSessionId, storedMessages, persisted, calls,
                         requests, anim, clock, writeFailed, responses,
                         onCompleteCalls,
                    orphanTimers, lastCursor >>
    ELSE /\ Len(requests) < MaxSubmits
         /\ LET userMessage == Message(clock, inputValue, TRUE, clock, "undefined")
                newMessagesWithUser == Append(messages, userMessage)
                body == RequestBody(inputValue, sessionId)
            IN  /\ \E ok \in BOOLEAN : saveMessages(newMessagesWithUser, ok)
                /\ inputValue' = << >>
                /\ isLoading' = TRUE
                /\ calls' = calls \cup { [id |-> userMessage.id, stage |-> "fetch",
                                          newMessagesWithUser |-> newMessagesWithUser] }
                /\ requests' = Append(requests, body)
                /\ clock' = clock + 1
                /\ Render(newMessagesWithUser, typingMessageId, isOpen, anim)
         /\ lastOp' = "submit"
         /\ UNCHANGED << reloads, sessionId, isOpen, storedSessionId, responses >>

Blocked ==
    /\ lastOp' = "blocked"
    /\ UNCHANGED << reloads, sessionId, messages, inputValue, isOpen, isLoading,
                    typingMessageId, storedSessionId, storedMessages, persisted, calls,
                    requests, anim, clock, writeFailed, responses, onCompleteCalls,
                    orphanTimers, lastCursor >>

\* handleKeyPress with Enter on the input; a disabled input dispatches nothing.
KeyPressEnter ==
    /\ isOpen
    /\ IF InputDisabled THEN Blocked ELSE sendMessage

\* onClick of the send button; a disabled button dispatches nothing.
ClickSend ==
    /\ isOpen
    /\ IF SendDisabled THEN Blocked ELSE sendMessage

\* Mutant: the catch block shows the raw error text.
ErrorMessage_Raw(t) == Message(t, << "!" >>, FALSE, t, "true")

\* The message built in the catch block, at time t.
ErrorMessage(t) == Message(t, APOLOGY_TEXT, FALSE, t, "true")

\* Mutant: isLoading is not reset.
Finally_Skipped == isLoading' = isLoading

\* The finally block: setIsLoading(false).
Finally == isLoading' = FALSE

\* The catch block and the finally block of sendMessage; op names what threw.
CatchFinally(c, op) ==
    LET finalMessages == Append(c.newMessagesWithUser, ErrorMessage(clock))
    IN  /\ \E ok \in BOOLEAN : saveMessages(finalMessages, ok)
        /\ Finally
        /\ calls' = calls \ { c }
        /\ clock' = clock + 1
        /\ Render(finalMessages, typingMessageId, isOpen, anim)
        /\ lastOp' = op
        /\ UNCHANGED << reloads, sessionId, inputValue, isOpen, storedSessionId, requests >>

\* fetch resolves with a 2xx status: sendMessage goes on to await response.json().
FetchOk(c) ==
    /\ c \in calls
    /\ c.stage = "fetch"
    /\ calls' = (calls \ { c }) \cup { [c EXCEPT !.stage = "json"] }
    /\ lastOp' = "fetched"
    /\ UNCHANGED << reloads, sessionId, messages, inputValue, isOpen, isLoading,
                    typingMessageId, storedSessionId, storedMessages, persisted, requests,
                    anim, clock, writeFailed, responses, onCompleteCalls,
                    orphanTimers, lastCursor >>

\* fetch rejects (transport error) or resolves with !response.ok (throw).
FetchFailures == { "networkError", "httpError" }

FetchFails(c, failure) ==
    /\ c \in calls
    /\ c.stage = "fetch"
    /\ CatchFinally(c, failure)
    /\ UNCHANGED responses

\* response.json() rejects: the body is not JSON.
JsonRejects(c) ==
    /\ c \in calls
    /\ c.stage = "json"
    /\ CatchFinally(c, "jsonRejected")
    /\ UNCHANGED responses

\* response.json() resolves with data: the reply is extracted, appended with
\* isTyping, saved, and made the typing message; or the extraction throws.
JsonResolves(c, data) ==
    /\ c \in calls
    /\ c.stage = "json"
    /\ responses' = Append(responses, data)
    /\ IF ExtractionThrows(data)
       THEN CatchFinally(c, "extractThrew")
       ELSE LET botMessage == Message(clock, botResponseText(data), FALSE, clock, "true")
                finalMessages == Append(c.newMessagesWithUser, botMessage)
            IN  /\ \E ok \in BOOLEAN : saveMessages(finalMessages, ok)
                /\ Finally
                /\ calls' = calls \ { c }
                /\ clock' = clock + 1
                /\ Render(finalMessages, botMessage.id, isOpen, anim)
                /\ lastOp' = "reply"
                /\ UNCHANGED << reloads, sessionId, inputValue, isOpen, storedSessionId, requests >>

(***************************************************************************)
(* TypingAnimation: the timeout of the tick effect fires                   *)
(***************************************************************************)
\* Mutant: the callback skips a character.
Advance_ByTwo(prev) == prev + 2

\* prev => prev + 1
Advance(prev) == prev + 1

\* setDisplayIndex(prev => prev + 1), then the re-render and its effects.
Tick ==
    /\ anim.mounted
    /\ anim.timer > 0
    /\ Render(messages, typingMessageId, isOpen,
              [anim EXCEPT !.displayIndex = Advance(@), !.timer = @ - 1])
    /\ lastOp' = "tick"
    /\ UNCHANGED << reloads, sessionId, inputValue, isOpen, isLoading, storedSessionId,
                    storedMessages, persisted, calls, requests, clock, writeFailed, responses >>

Next ==
    \/ OpenChat
    \/ CloseChat
    \/ \E v \in InputValues : ChangeInput(v)
    \/ KeyPressEnter
    \/ ClickSend
    \/ \E c \in calls : FetchOk(c)
    \/ \E c \in calls, failure \in FetchFailures : FetchFails(c, failure)
    \/ \E c \in calls : JsonRejects(c)
    \/ \E c \in calls, data \in Payloads : JsonResolves(c, data)
    \/ Tick

Spec == Init /\ [][Next]_vars

(***************************************************************************)
(* The page load: localStorage as the browser holds it before Chat is      *)
(* constructed, the construction itself (the useState initialisers call    *)
(* getOrCreateSessionId and then loadMessages), and a reload of the page.  *)
(***************************************************************************)
\* localStorage.getItem throws (storage access denied).
StoredUnreadable == [kind |-> "unreadable", value |-> << >>]

\* What localStorage holds for the log on the first visit; the logs of later
\* loads are the ones the widget has written.
BootLogs == { StoredAbsent, StoredMalformed }

\* No component yet: every piece of React state is at a placeholder.
BootInit ==
    /\ storedSessionId \in { NoSession, OldSession }
    /\ storedMessages \in BootLogs
    /\ persisted = << >>
    /\ sessionId = NoSession
    /\ messages = << >>
    /\ inputValue = << >>
    /\ isOpen = FALSE
    /\ isLoading = FALSE
    /\ typingMessageId = NULL
    /\ calls = {}
    /\ requests = << >>
    /\ anim = NoAnim
    /\ clock = 1
    /\ writeFailed = FALSE
    /\ responses = << >>
    /\ onCompleteCalls = << >>
    /\ orphanTimers = 0
    /\ lastCursor = NoCursor
    /\ reloads = 0
    /\ lastOp = "boot"

\* getOrCreateSessionId has no try/catch: a throwing getItem, or a throwing
\* setItem of the fresh identifier, leaves the useState initialiser by
\* exception and nothing is rendered.
InitializeThrows(op) ==
    /\ lastOp' = op
    /\ UNCHANGED << reloads, sessionId, messages, inputValue, isOpen, isLoading,
                    typingMessageId, storedSessionId, storedMessages, persisted, calls,
                    requests, anim, clock, writeFailed, responses, onCompleteCalls,
                    orphanTimers, lastCursor >>

\* The first render of Chat. idRead / idWrite / logRead tell whether the
\* getItem and setItem of the session identifier and the getItem of the log
\* succeed; loadMessages catches its own failures.
Initialize(idRead, idWrite, logRead) ==
    /\ lastOp = "boot"
    /\ IF ~idRead
       THEN InitializeThrows("initReadThrew")
       ELSE IF storedSessionId = NoSession /\ ~idWrite
       THEN InitializeThrows("initWriteThrew")
       ELSE /\ sessionId' = getOrCreateSessionId(storedSessionId)
            /\ storedSessionId' = getOrCreateSessionId(storedSessionId)
            /\ messages' = loadMessages(IF logRead THEN storedMessages ELSE StoredUnreadable,
                                        clock)
            /\ clock' = clock + 1
            /\ lastOp' = IF logRead THEN "init" ELSE "initReadFailed"
            /\ UNCHANGED << reloads, inputValue, isOpen, isLoading, typingMessageId,
                            storedMessages, persisted, calls, requests, anim, writeFailed,
                            responses, onCompleteCalls,
                    orphanTimers, lastCursor >>

\* The user reloads the page: the component, its pending calls and timers
\* are gone, localStorage stays.
Reload ==
    /\ lastOp # "boot"
    /\ reloads < MaxReloads
    /\ reloads' = reloads + 1
    /\ sessionId' = NoSession
    /\ messages' = << >>
    /\ inputValue' = << >>
    /\ isOpen' = FALSE
    /\ isLoading' = FALSE
    /\ typingMessageId' = NULL
    /\ calls' = {}
    /\ anim' = NoAnim
    /\ writeFailed' = FALSE
    /\ responses' = << >>
    /\ onCompleteCalls' = << >>
    /\ orphanTimers' = 0
    /\ lastCursor' = NoCursor
    /\ lastOp' = "boot"
    /\ UNCHANGED << storedSessionId, storedMessages, persisted, requests, clock >>

BootNext ==
    \/ \E idRead, idWrite, logRead \in BOOLEAN : Initialize(idRead, idWrite, logRead)
    \/ Reload
    \/ Next

BootSpec == BootInit /\ [][BootNext]_vars

(***************************************************************************)
(* The reveal of one reply: the widget right after a reply with an         *)
(* arbitrary text has arrived in the open window, and the events that       *)
(* re-render the TypingAnimation (tick, close, reopen, typing in the input) *)
(***************************************************************************)
\* The pieces reply texts are built from: a letter, a link, stray brackets.
Tokens ==
    { << "a" >>, << "[", "b", "]", "(", "u", ")" >>,
      << "[" >>, << "]" >>, << "(" >>, << ")" >> }

RECURSIVE Concat(_)
Concat(ts) == IF ts = << >> THEN << >> ELSE Head(ts) \o Concat(Tail(ts))

\* A reply of the kind the webhook sends: a sentence with one markdown link,
\* "Check [here](http://x.com) now".
ExampleText ==
    << "C", "h", "e", "c", "k", " ",
       "[", "h", "e", "r", "e", "]",
       "(", "h", "t", "t", "p", ":", "/", "/", "x", ".", "c", "o", "m", ")",
       " ", "n", "o", "w" >>

\* Replies with link syntax gone wrong: an empty label, an empty target, a
\* missing ")", a missing "(".
BrokenLinkTexts ==
    { << "[", "]", "(", "u", ")" >>,
      << "[", "b", "]", "(", ")" >>,
      << "a", "[", "b", "]", "(", "u" >>,
      << "[", "b", "]", "u", ")" >> }

ReplyTexts ==
    { Concat(ts) : ts \in UNION { [1 .. n -> Tokens] : n \in 0 .. MaxTokens } }
        \cup { ExampleText } \cup BrokenLinkTexts

\* The log once the greeting, the user message " h" and the reply t are in.
LogWithReply(t) ==
    << Greeting(1),
       Message(2, << " ", "h" >>, TRUE, 2, "undefined"),
       Message(3, t, FALSE, 3, "true") >>

\* The state JsonResolves leaves for the log and the body JsonString(t).
AfterReply(log, c) ==
    /\ messages = c.messages
    /\ typingMessageId = c.typingMessageId
    /\ anim = c.anim
    /\ onCompleteCalls = c.fired
    /\ orphanTimers = c.orphans
    /\ lastCursor = CursorAfter(c, NoCursor)
    /\ storedMessages = StoredJson(JSONstringify(log))
    /\ persisted = log
    /\ responses = << JsonString(log[Len(log)].text) >>

RevealInit ==
    /\ \E t \in ReplyTexts : AfterReply(LogWithReply(t), Commit(LogWithReply(t), 3, TRUE, NoAnim))
    /\ sessionId = NewSession
    /\ storedSessionId = NewSession
    /\ inputValue = << >>
    /\ isOpen = TRUE
    /\ isLoading = FALSE
    /\ calls = {}
    /\ requests = << RequestBody(<< " ", "h" >>, NewSession) >>
    /\ clock = 4
    /\ writeFailed = FALSE
    /\ reloads = 0
    /\ lastOp = "reply"

RevealNext ==
    \/ Tick
    \/ OpenChat
    \/ CloseChat
    \/ \E v \in InputValues : ChangeInput(v)

RevealSpec == RevealInit /\ [][RevealNext]_vars

(***************************************************************************)
(* TypingAnimation under a parent that changes its text prop: the message  *)
(* under reveal is rendered again, under the same key, with another text.  *)
(* No handler of Chat does this; the reset effect of TypingAnimation is    *)
(* written for it.                                                         *)
(***************************************************************************)
PropTexts ==
    { << "a" >>, << "a", "a", "a" >>, << "[", "b", "]", "(", "u", ")", "a" >> }

WithText(msgs, id, t) ==
    [i \in 1 .. Len(msgs) |->
        IF msgs[i].id = id THEN [msgs[i] EXCEPT !.text = t] ELSE msgs[i]]

ChangeText(t) ==
    /\ anim.mounted
    /\ t # anim.text
    /\ Render(WithText(messages, anim.msgId, t), typingMessageId, isOpen, anim)
    /\ lastOp' = "text"
    /\ UNCHANGED << reloads, sessionId, inputValue, isOpen, isLoading, storedSessionId,
                    storedMessages, persisted, calls, requests, clock, writeFailed,
                    responses >>

PropNext ==
    \/ RevealNext
    \/ \E t \in PropTexts : ChangeText(t)

PropSpec == RevealInit /\ [][PropNext]_vars

(***************************************************************************)
(* Liveness: a request that is in flight settles, and the continuation of  *)
(* sendMessage then runs (the claims about resolving requests assume it).  *)
(***************************************************************************)
Settle ==
    \E c \in calls :
        \/ FetchOk(c)
        \/ \E failure \in FetchFailures : FetchFails(c, failure)
        \/ JsonRejects(c)
        \/ \E data \in Payloads : JsonResolves(c, data)

LiveSpec == Spec /\ WF_vars(Settle)

\* Requests settle and a scheduled timeout fires: a re-render clears the
\* timeout and schedules a new one at once, so a TypingAnimation that stays
\* mounted below the end of its text always has one.
FairSpec == Spec /\ WF_vars(Settle) /\ WF_vars(Tick)

\* The reveal of one reply under the same fairness of the timer.
RevealLiveSpec == RevealSpec /\ WF_vars(Tick)

(***************************************************************************)
(* Properties                                                              *)
(***************************************************************************)
Last(s) == s[Len(s)]

\* The outcomes of a submit attempt (Enter in the input, click on send).
SubmitOutcomes == { "submit", "blank", "blocked" }

\* new extends old by exactly one message, keeping the id, text and author
\* of every earlier message in place.
GrowsByOne(old, new) ==
    /\ Len(new) = Len(old) + 1
    /\ \A i \in 1 .. Len(old) :
        /\ new[i].id = old[i].id
        /\ new[i].text = old[i].text
        /\ new[i].isUser = old[i].isUser

\* C1: a message whose isTyping has become false in the in-memory log keeps
\* isTyping = false in every later state, whatever events follow.
C1_RevealedStaysRevealed ==
    [][\A i \in 1 .. Len(messages) :
          messages[i].isTyping = "false" =>
             \A j \in 1 .. Len(messages') :
                messages'[j].id = messages[i].id => messages'[j].isTyping = "false"]_vars

\* C2: once a failed request (transport error or non-2xx status) has been
\* handled, the apology message is the active reveal: typingMessageId is its id.
C2_FailureBecomesActiveReveal ==
    lastOp \in FetchFailures => typingMessageId = Last(messages).id

\* C3: every step that changes the in-memory log leaves, unless a write has
\* failed, the persisted log equal to the serialized in-memory log.
C3_EveryMutationPersisted ==
    [][(messages' # messages /\ ~writeFailed')
          => storedMessages' = StoredJson(JSONstringify(messages'))]_vars

\* C4: a submit attempt made while isLoading is rejected: it neither changes
\* the log nor issues a request nor starts a call.
C4_SubmitWhilePendingRejected ==
    [][(isLoading /\ lastOp' \in SubmitOutcomes /\ vars' # vars)
          => /\ lastOp' = "blocked"
             /\ messages' = messages
             /\ storedMessages' = storedMessages
             /\ requests' = requests
             /\ calls' = calls]_vars

C4_Witness == isLoading /\ lastOp = "blocked" /\ calls # {}

\* C5: at most one sendMessage call, hence one external request, is in flight.
C5_AtMostOneInFlight == Cardinality(calls) <= 1

C5_Witness == Cardinality(calls) = 1 /\ Len(requests) = 2

\* C6: a submit attempt with an input that is blank after trimming changes
\* nothing: log, persisted log, input, isLoading, typingMessageId, requests.
C6_BlankSubmitIsNoOp ==
    [][(Trim(inputValue) = << >> /\ lastOp' \in SubmitOutcomes /\ vars' # vars)
          => /\ lastOp' # "submit"
             /\ UNCHANGED << messages, storedMessages, inputValue, isLoading,
                             typingMessageId, requests, calls >>]_vars

C6_Witness == lastOp = "blank" /\ inputValue = << " " >> /\ ~isLoading

\* C7: a submit attempt with a non-blank input and no request pending appends
\* exactly one user message holding the input, clears the input, sets
\* isLoading and issues exactly one request {chatInput: that text, sessionId:
\* the session's identifier, action: "sendMessage"}.
C7_AcceptedSubmit ==
    [][(Trim(inputValue) # << >> /\ ~isLoading /\ lastOp' \in SubmitOutcomes /\ vars' # vars)
          => /\ lastOp' = "submit"
             /\ GrowsByOne(messages, messages')
             /\ Last(messages').isUser
             /\ Last(messages').text = inputValue
             /\ Last(messages').isTyping = "undefined"
             /\ inputValue' = << >>
             /\ isLoading'
             /\ requests' = Append(requests,
                                   [chatInput |-> Last(messages').text,
                                    sessionId |-> storedSessionId,
                                    action    |-> "sendMessage"])
             /\ calls \subseteq calls'
             /\ Cardinality(calls' \ calls) = 1]_vars

C7_Witness ==
    /\ lastOp = "submit"
    /\ Last(messages).text = << " ", "h" >>
    /\ Len(requests) = 2

\* C8: whenever the request-pending flag is set, it is eventually cleared,
\* whether the request succeeds or fails, given that the request settles.
C8_LoadingEventuallyCleared == isLoading ~> ~isLoading

C8_Witness ==
    /\ ~isLoading
    /\ lastOp \in FetchFailures
    /\ Len(requests) = 1
    /\ calls = {}

\* C9: handling a failed request (transport error or non-2xx status) adds
\* exactly one message to the log, an assistant message with the fixed
\* apology text.
C9_FailureAppendsApology ==
    [][(lastOp' \in FetchFailures /\ vars' # vars)
          => /\ GrowsByOne(messages, messages')
             /\ ~Last(messages').isUser
             /\ Last(messages').text = APOLOGY_TEXT]_vars

C9_Witness ==
    /\ lastOp = "httpError"
    /\ Last(messages).text = APOLOGY_TEXT
    /\ ~Last(messages).isUser

\* C10: after a 2xx response whose body parsed as JSON has been handled, the
\* log has grown by exactly one assistant message with isTyping = true, that
\* message is the active reveal, and (the window being open) a
\* TypingAnimation is mounted for it.
C10_SuccessBecomesActiveReveal ==
    [][(lastOp' \in { "reply", "extractThrew" } /\ vars' # vars)
          => /\ GrowsByOne(messages, messages')
             /\ ~Last(messages').isUser
             /\ Last(messages').isTyping = "true"
             /\ typingMessageId' = Last(messages').id
             /\ isOpen' => (anim'.mounted /\ anim'.msgId = Last(messages').id)]_vars

\* The indices of the messages of msgs that carry the identifier id.
IndexOf(msgs, id) == { i \in 1 .. Len(msgs) : msgs[i].id = id }

\* msgs with the message id marked as typed and nothing else changed.
Revealed(msgs, id) ==
    [i \in 1 .. Len(msgs) |->
        IF msgs[i].id = id
        THEN [id |-> msgs[i].id, text |-> msgs[i].text, isUser |-> msgs[i].isUser,
              timestamp |-> msgs[i].timestamp, isTyping |-> "false"]
        ELSE msgs[i]]

\* C11: when onComplete is invoked for message m, m goes from isTyping = true
\* to isTyping = false, typingMessageId becomes null and every other message
\* of the log is left as it was (as the response handler put it, when the
\* completion happens in the render that follows a response).
C11_CompletionCallback ==
    [][onCompleteCalls' # onCompleteCalls
          => /\ typingMessageId' = NULL
             /\ IndexOf(messages', Last(onCompleteCalls')) # {}
             /\ \A i \in IndexOf(messages', Last(onCompleteCalls')) :
                    messages'[i].isTyping = "false"
             /\ IF lastOp' = "reply"
                THEN \E c \in calls \ calls' :
                        messages' = Revealed(Append(c.newMessagesWithUser,
                                                    [Last(messages') EXCEPT !.isTyping = "true"]),
                                             Last(onCompleteCalls'))
                ELSE /\ \A i \in IndexOf(messages, Last(onCompleteCalls')) :
                          messages[i].isTyping = "true"
                     /\ messages' = Revealed(messages, Last(onCompleteCalls'))]_vars

C11_Witness ==
    /\ lastOp = "tick"
    /\ Len(onCompleteCalls) = 1
    /\ typingMessageId = NULL
    /\ \E i \in 1 .. Len(messages) :
          messages[i].isTyping = "true" /\ messages[i].id # Last(onCompleteCalls)

\* C12: at most one message is being revealed (assistant message with
\* isTyping = true that typingMessageId names), at most one TypingAnimation is
\* rendered, and a mounted TypingAnimation is the one of that message; also
\* when a reply arrives while an earlier reply is still being typed.
C12_OneActiveReveal ==
    /\ Cardinality(TypingTargets(messages, typingMessageId, TRUE)) <= 1
    /\ Cardinality(TypingTargets(messages, typingMessageId, isOpen)) <= 1
    /\ anim.mounted =>
          /\ anim.msgId = typingMessageId
          /\ TypingTargets(messages, typingMessageId, isOpen) = IndexOf(messages, anim.msgId)

C12_Witness ==
    /\ lastOp = "reply"
    /\ isOpen
    /\ anim.mounted
    /\ anim.msgId = Last(messages).id
    /\ onCompleteCalls = << >>
    /\ \E i \in 1 .. (Len(messages) - 1) :
          /\ ~messages[i].isUser
          /\ messages[i].isTyping = "true"
          /\ messages[i].text = << "a" >>

\* old is a prefix of new as far as identifiers, texts and authors go.
IsPrefixLog(old, new) ==
    /\ Len(old) <= Len(new)
    /\ \A i \in 1 .. Len(old) :
        /\ new[i].id = old[i].id
        /\ new[i].text = old[i].text
        /\ new[i].isUser = old[i].isUser

\* C13: across every transition the identifiers, texts and authors of the
\* previous log are a prefix of the new log: nothing is deleted, reordered or
\* rewritten.
C13_AppendOnly == [][IsPrefixLog(messages, messages')]_vars

C13_Witness ==
    /\ Len(messages) = 5
    /\ lastOp \in FetchFailures
    /\ onCompleteCalls # << >>

\* C14: a successful construction creates and stores an identifier only when
\* none is stored and otherwise keeps the stored one; afterwards the
\* in-memory sessionId equals the stored one, and no event of the mounted
\* widget (submit, response, failure, completion, ...) changes either.
C14_SessionIdCreatedOnce ==
    [][/\ (lastOp = "boot" /\ Mounted')
            => /\ sessionId' # NoSession
               /\ storedSessionId # NoSession => storedSessionId' = storedSessionId
       /\ Mounted' => sessionId' = storedSessionId'
       /\ (Mounted /\ Mounted') => UNCHANGED << sessionId, storedSessionId >>]_vars

C14_Witness ==
    /\ reloads = 1
    /\ lastOp = "init"
    /\ sessionId = NewSession
    /\ Len(requests) = 1
    /\ requests[1].sessionId = NewSession

\* C15: a construction whose read of the log succeeds loads the stored log
\* when it parses, and otherwise (nothing stored, unparsable value; also a
\* read that throws) starts from exactly one assistant message, the greeting.
C15_InitializeLoadsLogOrGreeting ==
    [][(lastOp = "boot" /\ Mounted')
          => IF storedMessages.kind = "json" /\ lastOp' = "init"
             THEN /\ Len(messages') = Len(storedMessages.value)
                  /\ JSONstringify(messages') = storedMessages.value
             ELSE /\ Len(messages') = 1
                  /\ ~messages'[1].isUser
                  /\ messages'[1].text = GREETING_TEXT
                  /\ messages'[1].id = 1]_vars

C15_Witness ==
    /\ reloads = 1
    /\ lastOp = "init"
    /\ Len(messages) = 3
    /\ Last(messages).text = << "a" >>

\* C16: for the session identifier and for the log alike, a read that throws
\* or yields malformed data is treated as absent: the construction ends with
\* the widget mounted, on a session identifier and (for the log) on the
\* greeting, and raises nothing.
C16_ReadFailureTreatedAsAbsent ==
    [][(lastOp = "boot" /\ lastOp' \notin { "boot", "initWriteThrew" })
          => /\ Mounted'
             /\ sessionId' # NoSession
             /\ (storedMessages.kind # "json" \/ lastOp' = "initReadFailed")
                   => (Len(messages') = 1 /\ messages'[1].text = GREETING_TEXT)]_vars

\* The handlers that append the outcome of a request.
ResponseOutcomes == FetchFailures \cup { "jsonRejected", "extractThrew", "reply" }

\* C17: a write to localStorage that throws never aborts the operation that
\* made it: the construction still mounts the widget, a submit still appends
\* the user message and issues the request, a response or failure still
\* appends its message and clears isLoading.
C17_WriteFailureNeverAborts ==
    [][/\ lastOp' # "initWriteThrew"
       /\ (lastOp' = "submit" /\ vars' # vars /\ storedMessages' = storedMessages)
            => /\ GrowsByOne(messages, messages')
               /\ Len(requests') = Len(requests) + 1
               /\ isLoading'
       /\ (lastOp' \in ResponseOutcomes /\ vars' # vars /\ storedMessages' = storedMessages)
            => /\ GrowsByOne(messages, messages')
               /\ ~Last(messages').isUser
               /\ ~isLoading']_vars

\* The display length of the text of the message id of msgs.
TotalOf(msgs, id) ==
    totalDisplayLength(parseTextElements(msgs[CHOOSE i \in IndexOf(msgs, id) : TRUE].text))

\* C18: onComplete is invoked once per message and exactly when displayIndex
\* reaches totalDisplayLength: a step invokes it at most once, never for a
\* message it was invoked for before, only at the end of that message's text
\* (after the last tick, or at mount for an empty text); and no
\* TypingAnimation stays mounted at the end of its text, so that no later
\* re-render or effect re-run can invoke it again.
C18_CompletionExactlyOnce ==
    [][/\ onCompleteCalls' # onCompleteCalls
            => /\ Len(onCompleteCalls') = Len(onCompleteCalls) + 1
               /\ SubSeq(onCompleteCalls', 1, Len(onCompleteCalls)) = onCompleteCalls
               /\ \A k \in 1 .. Len(onCompleteCalls) :
                      onCompleteCalls[k] # Last(onCompleteCalls')
               /\ IF anim.mounted /\ anim.msgId = Last(onCompleteCalls')
                  THEN /\ lastOp' = "tick"
                       /\ anim.displayIndex + 1 = totalDisplayLength(anim.parsedElements)
                  ELSE TotalOf(messages', Last(onCompleteCalls')) = 0
       /\ (lastOp' = "tick" /\ vars' # vars
            /\ anim.displayIndex + 1 = totalDisplayLength(anim.parsedElements))
            => onCompleteCalls' = Append(onCompleteCalls, anim.msgId)
       /\ anim'.mounted
            => /\ anim'.displayIndex < totalDisplayLength(anim'.parsedElements)
               /\ ~anim'.isComplete]_vars

C18_Witness ==
    /\ lastOp = "tick"
    /\ Len(onCompleteCalls) = 2
    /\ ~anim.mounted
    /\ \E i \in 1 .. Len(messages) :
          messages[i].id = onCompleteCalls[1] /\ messages[i].isTyping = "true"

\* The reply text as the claim words it: the first field that is present.
FirstPresentField(data) ==
    IF data.response.present THEN data.response.val
    ELSE IF data.message.present THEN data.message.val
    ELSE IF data.output.present THEN data.output.val
    ELSE IF data.text.present THEN data.text.val
    ELSE IF data.kind = "string" THEN data.str
    ELSE FALLBACK_TEXT

\* C19: the message appended for a 2xx response whose body parsed carries the
\* first present field of the body in the order response, message, output,
\* text; else the body itself if it is a string; else the fallback text.
C19_ReplyTextIsFirstPresentField ==
    [][(lastOp' \in { "reply", "extractThrew" } /\ vars' # vars)
          => Last(messages').text = FirstPresentField(Last(responses'))]_vars

\* text.replace(markdownLinkRegex, "$1"): every link replaced by its label.
RECURSIVE ReplaceFrom(_, _)
ReplaceStep(text, from, m) ==
    IF m.index = -1
    THEN Slice(text, from, Len(text))
    ELSE Slice(text, from, m.index) \o m.linkText \o ReplaceFrom(text, m.end)

ReplaceFrom(text, from) == ReplaceStep(text, from, RegexExec(text, from))

ReplaceLinks(text) == ReplaceFrom(text, 0)

\* C20: for every text, the displayLength of the elements of
\* parseTextElements(text) sum up to the length of the text with every
\* [label](url) replaced by its label; stated for the text of every message
\* of the log and for the elements a mounted TypingAnimation holds.
C20_DisplayLengthSum ==
    /\ \A i \in 1 .. Len(messages) :
          totalDisplayLength(parseTextElements(messages[i].text))
             = Len(ReplaceLinks(messages[i].text))
    /\ anim.mounted =>
          totalDisplayLength(anim.parsedElements) = Len(ReplaceLinks(anim.text))

C20_Witness ==
    /\ anim.mounted
    /\ Len(anim.parsedElements) = 3
    /\ anim.parsedElements[2].type = "link"
    /\ anim.displayIndex = 2

(***************************************************************************)
(* C21  The reveal is monotonic in the cursor: for every parsed text and   *)
(* every cursor k below its total display length, the nodes rendered at k  *)
(* are rendered at k + 1 in the same places, each with a text that the     *)
(* text at k is a prefix of; and a tick of the mounted animation extends   *)
(* what it had rendered in that way.                                       *)
(***************************************************************************)
IsPrefix(s, t) == Len(s) <= Len(t) /\ SubSeq(t, 1, Len(s)) = s

Extends(r, q) ==
    /\ Len(r) <= Len(q)
    /\ \A i \in 1 .. Len(r) :
          /\ q[i].tag = r[i].tag
          /\ q[i].key = r[i].key
          /\ q[i].href = r[i].href
          /\ IsPrefix(r[i].text, q[i].text)

RevealsMonotonically(elements) ==
    \A k \in 0 .. totalDisplayLength(elements) - 1 :
        Extends(renderElements(elements, k), renderElements(elements, k + 1))

C21_RevealMonotonic ==
    /\ [](\A i \in 1 .. Len(messages) :
            ~messages[i].isUser
                => RevealsMonotonically(parseTextElements(messages[i].text)))
    /\ [][(anim.mounted /\ anim'.mounted /\ anim'.msgId = anim.msgId
            /\ anim'.displayIndex = anim.displayIndex + 1)
            => Extends(anim.rendered, anim'.rendered)]_vars

\* A tick has moved the cursor past the label of a link that follows text,
\* with more text to come: the span and the chip with its label are rendered.
C21_Witness ==
    /\ lastOp = "tick"
    /\ anim.mounted
    /\ Len(anim.rendered) = 2
    /\ anim.rendered[1].tag = "span"
    /\ anim.rendered[2].tag = "a"
    /\ anim.rendered[2].text # << >>
    /\ anim.displayIndex < totalDisplayLength(anim.parsedElements)

MessageIds == 1 .. (2 * MaxSubmits + 1)

IsPending(id) ==
    \E i \in 1 .. Len(messages) :
        messages[i].id = id /\ ~messages[i].isUser /\ messages[i].isTyping = "true"

IsRevealed(id) ==
    \E i \in 1 .. Len(messages) :
        messages[i].id = id /\ ~messages[i].isUser /\ messages[i].isTyping = "false"

C23_PendingEventuallyRevealed ==
    (<>[]isOpen) => \A id \in MessageIds : IsPending(id) ~> IsRevealed(id)

(***************************************************************************)
(* C24  The cursor of the message under reveal never decreases: whatever   *)
(* happens between its becoming the active reveal and its completion       *)
(* (ticks, re-renders, input changes, closing and reopening the window),   *)
(* the cursor a render shows for it is at least the cursor shown before.   *)
(***************************************************************************)
C24_CursorNeverDecreases ==
    [][(anim'.mounted /\ lastCursor.msgId = anim'.msgId)
        => anim'.displayIndex >= lastCursor.displayIndex]_vars

(***************************************************************************)
(* C25  A tick fires only for a mounted animation whose cursor is below    *)
(* the total display length and moves the cursor up by exactly one (the    *)
(* tick that reaches the total signals completion); the cursor of a        *)
(* mounted animation is always between 0 and the total display length.     *)
(***************************************************************************)
C25_TickAdvancesByOne ==
    /\ [](anim.mounted
            => /\ 0 <= anim.displayIndex
               /\ anim.displayIndex <= totalDisplayLength(anim.parsedElements))
    /\ [][lastOp' = "tick"
            => /\ anim.mounted
               /\ anim.displayIndex < totalDisplayLength(anim.parsedElements)
               /\ IF anim'.mounted
                  THEN /\ anim'.msgId = anim.msgId
                       /\ anim'.displayIndex = anim.displayIndex + 1
                  ELSE /\ anim.displayIndex + 1 = totalDisplayLength(anim.parsedElements)
                       /\ onCompleteCalls' = Append(onCompleteCalls, anim.msgId)]_vars

\* Two ticks have fired and the text is not at its end yet.
C25_Witness ==
    /\ lastOp = "tick"
    /\ anim.mounted
    /\ anim.displayIndex = 2
    /\ anim.displayIndex < totalDisplayLength(anim.parsedElements)

(***************************************************************************)
(* C26  A reveal that stays bound to its message terminates: when timeouts *)
(* fire, an open window leads to onComplete having been invoked for the    *)
(* message (the cursor has reached the total display length) unless the    *)
(* window is closed first, for every reply text, the empty one included    *)
(* (completion at mount).                                                  *)
(***************************************************************************)
Completed(id) == \E k \in 1 .. Len(onCompleteCalls) : onCompleteCalls[k] = id

C26_RevealTerminates ==
    /\ isOpen ~> (Completed(Last(messages).id) \/ ~isOpen)
    /\ [](TotalOf(messages, Last(messages).id) = 0 => Completed(Last(messages).id))

\* The third tick has completed a reply of three display characters.
C26_Witness ==
    /\ lastOp = "tick"
    /\ Completed(Last(messages).id)
    /\ ~anim.mounted
    /\ TotalOf(messages, Last(messages).id) = 3

(***************************************************************************)
(* C27  At most one timeout of a TypingAnimation is outstanding at any     *)
(* time: when the tick effect schedules a timeout, the one it scheduled    *)
(* before has fired or been cleared; a mounted animation below the end of  *)
(* its text has exactly one, and a tick consumes it.                       *)
(***************************************************************************)
C27_AtMostOneTimer ==
    /\ [](/\ anim.timer <= 1
          /\ anim.mounted
                => (anim.timer = 1
                      <=> anim.displayIndex < totalDisplayLength(anim.parsedElements)))
    /\ [][lastOp' = "tick" => anim.timer = 1]_vars

\* After a tick, typing in the input has re-rendered the animation: its
\* effect has run again and still one timeout is outstanding.
C27_Witness ==
    /\ lastOp = "change"
    /\ anim.mounted
    /\ anim.displayIndex >= 1
    /\ anim.timer = 1

(***************************************************************************)
(* C28  Unbinding a TypingAnimation (its message stops being the active    *)
(* reveal, the window closes) clears its pending timeout: no timeout is    *)
(* left scheduled for an unmounted animation, and while none is mounted no *)
(* tick fires and onComplete is not invoked (but for a reply that          *)
(* completes in the render that mounts it).                                *)
(***************************************************************************)
C28_UnbindCancelsTick ==
    /\ [](orphanTimers = 0 /\ (~anim.mounted => anim.timer = 0))
    /\ [][~anim.mounted
            => /\ lastOp' # "tick"
               /\ \/ onCompleteCalls' = onCompleteCalls
                  \/ /\ Len(onCompleteCalls') = Len(onCompleteCalls) + 1
                     /\ TotalOf(messages', Last(onCompleteCalls')) = 0]_vars

\* The second reply has arrived while the first was being revealed: the
\* first animation was unmounted with its timeout pending, the second is
\* mounted with its own.
C28_Witness ==
    /\ lastOp = "reply"
    /\ anim.mounted
    /\ anim.msgId = 5
    /\ anim.timer = 1
    /\ IsPending(3)
    /\ onCompleteCalls = << >>

(***************************************************************************)
(* C29  When an animation is bound to a new text (it is mounted, or the    *)
(* text prop of the mounted one changes), its cursor is 0 and its          *)
(* completion flag false, and the timeout scheduled under the old text is  *)
(* cleared: one timeout is outstanding afterwards, scheduled for cursor 0, *)
(* and the next tick shows cursor 1.                                       *)
(***************************************************************************)
C29_RebindResets ==
    [][/\ (anim'.mounted
           /\ (~anim.mounted \/ anim'.msgId # anim.msgId \/ anim'.text # anim.text))
          => /\ anim'.displayIndex = 0
             /\ ~anim'.isComplete
             /\ anim'.timer = 1
             /\ orphanTimers' = orphanTimers
       /\ lastOp' = "text"
          => /\ anim'.mounted
             /\ anim'.msgId = anim.msgId
             /\ anim'.text # anim.text
       /\ (lastOp = "text" /\ lastOp' = "tick" /\ anim'.mounted)
          => anim'.displayIndex = 1]_vars

\* The text prop has changed to a text of one character: the cursor is 0 and
\* one timeout is outstanding; the segments are those parsed at mount, of a
\* text of three display characters or more.
C29_Witness ==
    /\ lastOp = "text"
    /\ anim.mounted
    /\ anim.displayIndex = 0
    /\ anim.timer = 1
    /\ lastCursor.msgId = anim.msgId
    /\ Len(anim.text) = 1
    /\ Len(anim.parsedElements) > 0
    /\ totalDisplayLength(anim.parsedElements) >= 3

(***************************************************************************)
(* C30  The segments a mounted animation renders from, and takes its total *)
(* display length from, are the result of parsing the text it is currently *)
(* bound to, also after its text prop has changed.                         *)
(***************************************************************************)
C30_SegmentsOfBoundText ==
    anim.mounted => anim.parsedElements = parseTextElements(anim.text)

(***************************************************************************)
(* C31  A log that initialize loads from localStorage holds no message     *)
(* with isTyping = true; and at every page reload, each assistant message  *)
(* whose reveal has completed (isTyping = false in memory) is revealed in  *)
(* the log that the next initialize loads from what is stored.             *)
(***************************************************************************)
LoadedAfter(stored, t, id) ==
    { m \in { loadMessages(stored, t)[i] : i \in 1 .. Len(loadMessages(stored, t)) } :
        m.id = id }

C31_LoadedLogIsRevealed ==
    /\ [][(lastOp = "boot" /\ lastOp' = "init" /\ storedMessages.kind = "json")
            => \A i \in 1 .. Len(messages') : messages'[i].isTyping # "true"]_vars
    /\ [][(lastOp # "boot" /\ lastOp' = "boot")
            => \A i \in 1 .. Len(messages) :
                 (~messages[i].isUser /\ messages[i].isTyping = "false")
                    => \A m \in LoadedAfter(storedMessages', clock', messages[i].id) :
                          m.isTyping # "true"]_vars

(***************************************************************************)
(* C32  The reveal goes left to right over the elements: at every cursor   *)
(* the rendered nodes are, in order, the nodes of the first elements of    *)
(* the parsed sequence; every element before a rendered one is shown in    *)
(* full; every element the cursor has passed the start of is rendered;     *)
(* and an element whose display start exceeds the cursor, and every one    *)
(* after it, is not. Checked for every reply text at every cursor and on   *)
(* what the mounted animation has rendered.                                *)
(***************************************************************************)
FullText(element) ==
    IF element.type = "text" THEN element.content ELSE element.linkText

TagOf(element) == IF element.type = "text" THEN "span" ELSE "a"

LeftToRight(elements, k, r) ==
    /\ Len(r) <= Len(elements)
    /\ \A i \in 1 .. Len(r) :
          /\ r[i].key = elements[i].startIndex
          /\ r[i].tag = TagOf(elements[i])
          /\ elements[i].displayStartIndex <= k
          /\ \A j \in 1 .. (i - 1) : r[j].text = FullText(elements[j])
    /\ \A i \in 1 .. Len(elements) :
          /\ elements[i].displayStartIndex < k => i <= Len(r)
          /\ elements[i].displayStartIndex > k => i > Len(r)

RevealsLeftToRight(elements) ==
    \A k \in 0 .. totalDisplayLength(elements) :
        LeftToRight(elements, k, renderElements(elements, k))

C32_RevealLeftToRight ==
    /\ \A i \in 1 .. Len(messages) :
          ~messages[i].isUser => RevealsLeftToRight(parseTextElements(messages[i].text))
    /\ anim.mounted => LeftToRight(anim.parsedElements, anim.displayIndex, anim.rendered)

\* A tick has shown the whole of the text before a link: the span and the
\* chip of the link, its label still empty, are rendered and the text after
\* the link is not.
C32_Witness ==
    /\ lastOp = "tick"
    /\ anim.mounted
    /\ Len(anim.parsedElements) = 3
    /\ Len(anim.rendered) = 2
    /\ anim.rendered[1].text = anim.parsedElements[1].content
    /\ anim.rendered[2].tag = "a"
    /\ anim.rendered[2].text = << >>

(***************************************************************************)
(* C33  For every link element and every cursor at or past its display     *)
(* start, the render holds exactly one node for it, an <a> whose href is   *)
(* the whole link target and whose label is the first                      *)
(* min(cursor - displayStartIndex, displayLength) characters of the link   *)
(* text (empty when the cursor equals the display start); for a cursor     *)
(* before the display start the render holds no node for it.               *)
(***************************************************************************)
NodesOf(r, element) == { i \in 1 .. Len(r) : r[i].key = element.startIndex }

LinkRendered(element, k, r) ==
    IF k >= element.displayStartIndex
    THEN /\ Cardinality(NodesOf(r, element)) = 1
         /\ \A i \in NodesOf(r, element) :
               /\ r[i].tag = "a"
               /\ r[i].href = element.linkUrl
               /\ r[i].text = SubSeq(element.linkText, 1,
                                     Min(k - element.displayStartIndex,
                                         element.displayLength))
               /\ (k = element.displayStartIndex => r[i].text = << >>)
    ELSE NodesOf(r, element) = {}

LinksRendered(elements, k, r) ==
    \A i \in 1 .. Len(elements) :
        elements[i].type = "link" => LinkRendered(elements[i], k, r)

C33_LinkUnitWithTruncatedLabel ==
    /\ \A i \in 1 .. Len(messages) :
          ~messages[i].isUser =>
             \A k \in 0 .. totalDisplayLength(parseTextElements(messages[i].text)) :
                LinksRendered(parseTextElements(messages[i].text), k,
                              renderElements(parseTextElements(messages[i].text), k))
    /\ anim.mounted => LinksRendered(anim.parsedElements, anim.displayIndex, anim.rendered)

\* A tick has shown part of the label of a link: its chip carries the whole
\* target and a proper, non-empty prefix of the label.
C33_Witness ==
    /\ lastOp = "tick"
    /\ anim.mounted
    /\ \E i \in 1 .. Len(anim.rendered) :
          /\ anim.rendered[i].tag = "a"
          /\ anim.rendered[i].href = anim.parsedElements[i].linkUrl
          /\ anim.rendered[i].text # << >>
          /\ Len(anim.rendered[i].text) < Len(anim.parsedElements[i].linkText)

(***************************************************************************)
(* C34  Each accepted submit gets exactly one assistant message, the reply *)
(* or the apology, appended directly after its user message when its       *)
(* request resolves: in the log after the greeting user and assistant      *)
(* messages alternate (no two user messages and no two assistant messages  *)
(* are adjacent), a user message is last exactly while its request is in   *)
(* flight, the assistant messages after the greeting are as many as the    *)
(* requests that have resolved, the step that resolves the request of a    *)
(* user message appends one assistant message right after that message     *)
(* and no other step adds one, and a user message that is last in the log  *)
(* is eventually followed by an assistant message.                         *)
(***************************************************************************)
Answers(msgs) == { i \in 2 .. Len(msgs) : ~msgs[i].isUser }

Alternates(msgs) ==
    /\ \A i \in 1 .. (Len(msgs) - 1) : msgs[i].isUser => ~msgs[i + 1].isUser
    /\ \A i \in Answers(msgs) : msgs[i - 1].isUser

AnswersTrigger(c, old, new) ==
    /\ Len(new) = Len(old) + 1
    /\ Last(old).isUser
    /\ Last(old).id = c.id
    /\ new[Len(old)].id = c.id
    /\ new[Len(old)].isUser
    /\ ~Last(new).isUser
    /\ \A i \in 1 .. Len(old) : new[i].id = old[i].id

C34_OneAnswerPerSubmit ==
    /\ [](/\ Alternates(messages)
          /\ (Last(messages).isUser <=> calls # {})
          /\ Cardinality(Answers(messages)) = Len(requests) - Cardinality(calls))
    /\ [][IF calls' \subseteq calls /\ calls' # calls
          THEN \A c \in calls \ calls' : AnswersTrigger(c, messages, messages')
          ELSE Cardinality(Answers(messages')) = Cardinality(Answers(messages))]_vars
    /\ (Last(messages).isUser ~> ~Last(messages).isUser)

\* Two submits have been answered, the first by a reply and the second by
\* the apology.
C34_Witness ==
    /\ calls = {}
    /\ Len(requests) = 2
    /\ Len(messages) = 5
    /\ messages[2].isUser /\ ~messages[3].isUser /\ messages[3].text # APOLOGY_TEXT
    /\ messages[4].isUser /\ messages[5].text = APOLOGY_TEXT
    /\ lastOp \in FetchFailures

(***************************************************************************)
(* C35  For every text, parseTextElements yields elements in source order  *)
(* whose source ranges [startIndex, endIndex) are non-empty, start at 0,   *)
(* follow one another without gap or overlap and end at the length of the  *)
(* text, each holding that stretch of the text, and the displayStartIndex  *)
(* of each element is the sum of the displayLength of the elements before  *)
(* it; "Check [here](http://x.com) now" gives a text, the link with label  *)
(* "here" and target "http://x.com", and a text, with display start and    *)
(* length (0,6), (6,4), (10,4).                                            *)
(***************************************************************************)
Contiguous(text, elements) ==
    /\ (elements = << >>) <=> (text = << >>)
    /\ elements # << >> =>
          /\ elements[1].startIndex = 0
          /\ Last(elements).endIndex = Len(text)
    /\ \A i \in 1 .. Len(elements) :
          /\ elements[i].startIndex < elements[i].endIndex
          /\ elements[i].content = Slice(text, elements[i].startIndex, elements[i].endIndex)
    /\ \A i \in 1 .. (Len(elements) - 1) :
          elements[i + 1].startIndex = elements[i].endIndex

RunningSum(elements) ==
    \A i \in 1 .. Len(elements) :
        elements[i].displayStartIndex = SumDisplayLength(SubSeq(elements, 1, i - 1))

Shape(elements) ==
    [i \in 1 .. Len(elements) |->
        << elements[i].type, elements[i].linkText, elements[i].linkUrl,
           elements[i].displayStartIndex, elements[i].displayLength >>]

ExampleShape ==
    << << "text", << >>, << >>, 0, 6 >>,
       << "link", << "h", "e", "r", "e" >>,
          << "h", "t", "t", "p", ":", "/", "/", "x", ".", "c", "o", "m" >>, 6, 4 >>,
       << "text", << >>, << >>, 10, 4 >> >>

C35_SegmentsContiguousRunningSum ==
    /\ \A i \in 1 .. Len(messages) :
          ~messages[i].isUser =>
             /\ Contiguous(messages[i].text, parseTextElements(messages[i].text))
             /\ RunningSum(parseTextElements(messages[i].text))
             /\ (messages[i].text = ExampleText
                   => Shape(parseTextElements(messages[i].text)) = ExampleShape)
    /\ anim.mounted =>
          /\ Contiguous(anim.text, anim.parsedElements)
          /\ RunningSum(anim.parsedElements)

\* The example reply is being revealed and a tick has put the cursor inside
\* the label of its link.
C35_Witness ==
    /\ lastOp = "tick"
    /\ anim.mounted
    /\ anim.text = ExampleText
    /\ Shape(anim.parsedElements) = ExampleShape
    /\ anim.displayIndex > anim.parsedElements[2].displayStartIndex
    /\ anim.displayIndex < anim.parsedElements[3].displayStartIndex

(***************************************************************************)
(* C36  Link syntax that does not complete the pattern "[", one or more    *)
(* characters other than "]", "](", one or more characters other than ")", *)
(* ")" gives no link element: a text holding no complete link parses to    *)
(* one text element that is the whole text, counted with its full length;  *)
(* in any text every link element is a complete link, every text element   *)
(* holds its stretch of the text unchanged, counted with its full length,  *)
(* and holds no complete link; and parsing yields a sequence of elements   *)
(* for every text.                                                         *)
(***************************************************************************)
NoneOf(s, a, b, ch) == \A n \in a .. b : s[n] # ch

\* The text holds a complete link (positions are those of the sequence).
HasLink(s) ==
    \E i \in { n \in 1 .. Len(s) : s[n] = "[" } :
      \E j \in { n \in (i + 2) .. (Len(s) - 1) : s[n] = "]" /\ s[n + 1] = "(" } :
        \E k \in { n \in (j + 3) .. Len(s) : s[n] = ")" } :
            NoneOf(s, i + 1, j - 1, "]") /\ NoneOf(s, j + 2, k - 1, ")")

IsCompleteLink(element) ==
    /\ element.linkText # << >>
    /\ element.linkUrl # << >>
    /\ NoneOf(element.linkText, 1, Len(element.linkText), "]")
    /\ NoneOf(element.linkUrl, 1, Len(element.linkUrl), ")")
    /\ element.content =
          << "[" >> \o element.linkText \o << "]", "(" >> \o element.linkUrl \o << ")" >>

IsLiteralText(text, element) ==
    /\ element.content = Slice(text, element.startIndex, element.endIndex)
    /\ element.displayLength = Len(element.content)
    /\ element.displayLength = element.endIndex - element.startIndex
    /\ ~HasLink(element.content)

DegradesToText(text, elements) ==
    /\ elements \in Seq({ elements[i] : i \in 1 .. Len(elements) })
    /\ \A i \in 1 .. Len(elements) :
          IF elements[i].type = "link"
          THEN IsCompleteLink(elements[i])
          ELSE elements[i].type = "text" /\ IsLiteralText(text, elements[i])
    /\ (text # << >> /\ ~HasLink(text)) =>
          /\ Len(elements) = 1
          /\ elements[1].type = "text"
          /\ elements[1].content = text
          /\ elements[1].displayLength = Len(text)
          /\ totalDisplayLength(elements) = Len(text)

C36_MalformedLinkStaysText ==
    /\ \A i \in 1 .. Len(messages) :
          ~messages[i].isUser =>
             DegradesToText(messages[i].text, parseTextElements(messages[i].text))
    /\ anim.mounted => DegradesToText(anim.text, anim.parsedElements)

\* The reply "[](u)", a link with an empty label, is being revealed as plain
\* text and a tick has shown its brackets.
C36_Witness ==
    /\ lastOp = "tick"
    /\ anim.mounted
    /\ anim.text = << "[", "]", "(", "u", ")" >>
    /\ Len(anim.parsedElements) = 1
    /\ Len(anim.rendered) = 1
    /\ anim.rendered[1].tag = "span"
    /\ anim.rendered[1].text = << "[", "]", "(" >>

====
